---------------------------- MODULE Spec2Model ----------------------------
(***************************************************************************)
(* Model of recipe_designer/main.py: the wildcard normalizer, the recipe   *)
(* grid editor (slots, symbols, variant picker, re-discovery) and the      *)
(* asset-root resolver.                                                    *)
(*                                                                         *)
(* Strings the program inspects character by character (item codes, the    *)
(* text typed in the symbol field) are sequences of one-character strings, *)
(* so that endswith / rstrip / slicing are computed as the code does.      *)
(***************************************************************************)
EXTENDS Naturals, Sequences, FiniteSets

(***************************************************************************)
(* Bounds of the model.                                                    *)
(***************************************************************************)
\* longest code the normalizer specification starts from
MaxLen == 3

\* grid cells modelled (the first NumSlots cells of the 3x3 grid, row-major)
NumSlots == 2

\* variant dialogs that may be open at once (the dialog is not modal)
MaxDialogs == 1

\* longest text typed into the symbol field
MaxRaw == 1

\* longest quoted value in the texts given to _discover_codes_in_text
MaxValLen == 3

\* longest string given to _norm_pattern
MaxNormLen == 4

(***************************************************************************)
(* String helpers (Python str methods used by the code).                   *)
(***************************************************************************)
\* s.endswith("*")
EndsWithStar(s) == Len(s) > 0 /\ s[Len(s)] = "*"

\* s.endswith("-")
EndsWithDash(s) == Len(s) > 0 /\ s[Len(s)] = "-"

\* s.endswith("-*")
EndsWithDashStar(s) == Len(s) > 1 /\ s[Len(s)] = "*" /\ s[Len(s) - 1] = "-"

\* s[:-1]
DropLast(s) == SubSeq(s, 1, Len(s) - 1)

\* s.rstrip("-")
RECURSIVE RStripDash(_)
RStripDash(s) == IF EndsWithDash(s) THEN RStripDash(DropLast(s)) ELSE s

\* ch in s
HasChar(s, ch) == \E i \in 1..Len(s) : s[i] = ch

\* (ch + ch) in s
HasDouble(s, ch) == \E i \in 1..(Len(s) - 1) : s[i] = ch /\ s[i + 1] = ch

\* all strings over alphabet A of length exactly n / at most n
RECURSIVE StringsOfLen(_, _)
StringsOfLen(A, n) ==
    IF n = 0 THEN {<<>>}
    ELSE {Append(s, ch) : s \in StringsOfLen(A, n - 1), ch \in A}

StringsUpTo(A, n) == UNION {StringsOfLen(A, k) : k \in 0..n}

(***************************************************************************)
(* Wildcard normalizer: the (code, allowed_variants) part of an            *)
(* Ingredient.  allowed_variants is a list in the code; it is only ever    *)
(* built in the order of the sorted option list, tested for emptiness and  *)
(* for membership, so it is modelled as the set of its tokens.             *)
(***************************************************************************)

\* mutation: the trailing dashes of the base are not removed
NormalizeWildcardCode_NoRstrip(ing) ==
    IF Len(ing.code) = 0 \/ ~EndsWithStar(ing.code) THEN ing
    ELSE LET base == DropLast(ing.code)
         IN  IF ing.allowed_variants # {}
             THEN [ing EXCEPT !.code = base \o <<"-", "*">>]
             ELSE [ing EXCEPT !.code = base \o <<"*">>]

\* mutation: the two suffix branches are exchanged
NormalizeWildcardCode_Swapped(ing) ==
    IF Len(ing.code) = 0 \/ ~EndsWithStar(ing.code) THEN ing
    ELSE LET base == RStripDash(DropLast(ing.code))
         IN  IF ing.allowed_variants # {}
             THEN [ing EXCEPT !.code = base \o <<"*">>]
             ELSE [ing EXCEPT !.code = base \o <<"-", "*">>]

\* RecipeBuilderApp._normalize_wildcard_code
NormalizeWildcardCode(ing) ==
    IF Len(ing.code) = 0 \/ ~EndsWithStar(ing.code) THEN ing
    ELSE LET base == RStripDash(DropLast(ing.code))
         IN  IF ing.allowed_variants # {}
             THEN [ing EXCEPT !.code = base \o <<"-", "*">>]
             ELSE [ing EXCEPT !.code = base \o <<"*">>]

\* RecipeBuilderApp._side_apply, "Handle wildcard code toggle" block
SideApplyWildcard(ing, wildcard) ==
    IF Len(ing.code) = 0 THEN ing
    ELSE IF wildcard
         THEN NormalizeWildcardCode(
                  IF ~EndsWithStar(ing.code)
                  THEN [ing EXCEPT !.code = ing.code \o <<"*">>]
                  ELSE ing)
         ELSE [ing EXCEPT
                  !.code = IF EndsWithStar(ing.code) THEN DropLast(ing.code)
                           ELSE ing.code,
                  !.allowed_variants = {}]

\* RecipeBuilderApp._update_variants_summary (the label text is not modelled)
UpdateVariantsSummary(ing, options) ==
    IF ing.allowed_variants = {} THEN ing
    ELSE IF ing.allowed_variants \cap options = {}
         THEN NormalizeWildcardCode([ing EXCEPT !.allowed_variants = {}])
         ELSE ing

\* RecipeBuilderApp._open_variants_dialog.ok, applied to the captured ingredient
VariantsDialogOk(ing, chosen, wildcard, options) ==
    LET a == [ing EXCEPT !.allowed_variants = chosen]
        b == IF wildcard
             THEN NormalizeWildcardCode(
                      IF ~EndsWithStar(a.code)
                      THEN [a EXCEPT !.code = a.code \o <<"*">>]
                      ELSE a)
             ELSE a
    IN  UpdateVariantsSummary(b, options)


(***************************************************************************)
(* Recipe grid editor (RecipeBuilderApp).                                  *)
(*                                                                         *)
(* Ingredient fields quantity, is_tool, tool_cost and name are written by  *)
(* _side_apply / _on_is_tool_toggle / _apply_slot_name from their own      *)
(* entry fields and read by no handler modelled here; they are left out.   *)
(***************************************************************************)
VARIABLES
    grid_items,         \* slot -> Ingredient, defined on the filled slots only
    selected,           \* self.selected
    wildcard_var,       \* self.wildcard_var
    symbol_var,         \* self.symbol_var
    variants_row,       \* variants_row gridded?, and what variants_btn opens
    code_to_symbol,     \* self.code_to_symbol
    variant_index,      \* self.variant_index
    used_survival_path, \* self.used_survival_path: [found, path], NoPath for None
    dialogs,            \* open "Select Variants" dialogs
    error_box           \* title of the error box the last handler raised, or ""

ui_vars == <<grid_items, selected, wildcard_var, symbol_var, variants_row,
             code_to_symbol, variant_index, used_survival_path, dialogs,
             error_box>>

\* the one Ingredient of the normalizer specification
VARIABLES
    n_ing,      \* the Ingredient: [code, allowed_variants]
    n_wild,     \* wildcard_var while the Ingredient is selected
    n_prev,     \* the Ingredient before the last handler
    n_start,    \* the code the Ingredient was created with
    n_last      \* the last handler: "init", "on", "off", "variants", "normalize"

norm_vars == <<n_ing, n_wild, n_prev, n_start, n_last>>

\* one process calling resolve_survival_dir
VARIABLES
    r_fs,           \* the directories that exist on disk
    r_environ,      \* os.environ
    r_env_key,      \* argument env_key of the last call ("" for None or "")
    r_direct_root,  \* argument direct_root of the last call
    r_survival,     \* first component of what the last call returned
    r_logs,         \* second component of what the last call returned
    r_called        \* resolve_survival_dir has returned

res_vars == <<r_fs, r_environ, r_env_key, r_direct_root, r_survival, r_logs,
              r_called>>

\* one text under the scanning functions
VARIABLES
    s_text,     \* the text of a definition file, or the string to normalize
    s_codes,    \* what _discover_codes_in_text returned for it
    s_norm,     \* what _norm_pattern returned for it
    s_corpus,   \* what _collect_corpus_variants returned for it
    s_done      \* the functions that have been applied

scan_vars == <<s_text, s_codes, s_norm, s_corpus, s_done>>

\* discovery settings and export of RecipeBuilderApp
VARIABLES
    self_env_key,       \* self.env_key
    self_direct_root,   \* self.direct_root
    discovered_items,   \* self.discovered_items (as a set)
    output_code_var,    \* self.output_code_var
    clipboard           \* the document copy_json5 put on the clipboard

app_vars == <<self_env_key, self_direct_root, discovered_items, output_code_var, clipboard>>

vars == <<ui_vars, norm_vars, res_vars, scan_vars, app_vars>>

\* what the handlers of one specification leave alone
non_ui_vars == <<norm_vars, res_vars, scan_vars, app_vars>>

non_norm_vars == <<ui_vars, res_vars, scan_vars, app_vars>>

non_res_vars == <<ui_vars, norm_vars, scan_vars, app_vars>>

non_scan_vars == <<ui_vars, norm_vars, res_vars, app_vars>>

Slots == 1..NumSlots

Alphabet == <<"A", "B", "C", "D", "E", "F", "G", "H", "I", "J", "K", "L", "M",
              "N", "O", "P", "Q", "R", "S", "T", "U", "V", "W", "X", "Y", "Z">>

LowerCase == <<"a", "b", "c", "d", "e", "f", "g", "h", "i", "j", "k", "l", "m",
               "n", "o", "p", "q", "r", "s", "t", "u", "v", "w", "x", "y", "z">>

\* codes a user types or picks from the autocomplete pool in the item popup
InputCodes == { <<"a">>, <<"a", "-", "*">> }

\* texts a user types into the symbol field: a lower-case letter, a character
\* that is no letter, and what MaxRaw lets him build from them
RawSymbols == StringsUpTo({"b", "1"}, MaxRaw)

EmptyFn == [x \in {} |-> {}]

Put(f, k, v) == [x \in (DOMAIN f) \cup {k} |-> IF x = k THEN v ELSE f[x]]

Remove(f, k) == [x \in (DOMAIN f) \ {k} |-> f[x]]

\* what a discovery run can find: no asset root, or an asset tree whose
\* definition files hold game:a-x
GameA == <<"g", "a", "m", "e", ":", "a", "-">>

NoPath == [found |-> FALSE, path |-> <<>>]

Discoveries ==
    { [path |-> NoPath, index |-> EmptyFn],
      [path |-> [found |-> TRUE, path |-> <<"vs", "assets", "survival">>],
       index |-> [k \in {GameA} |-> {<<"x">>}]] }

\* ch.isalpha() and ch.upper() on the characters modelled
IsAlpha(ch) == \E i \in 1..Len(Alphabet) : Alphabet[i] = ch \/ LowerCase[i] = ch

Upper(ch) ==
    IF \E i \in 1..Len(LowerCase) : LowerCase[i] = ch
    THEN Alphabet[CHOOSE i \in 1..Len(LowerCase) : LowerCase[i] = ch]
    ELSE ch

\* _apply_symbol_live: first alphabetic character of the field, upper-cased
RECURSIVE FirstAlpha(_)
FirstAlpha(raw) ==
    IF Len(raw) = 0 THEN ""
    ELSE IF IsAlpha(Head(raw)) THEN Upper(Head(raw))
    ELSE FirstAlpha(Tail(raw))

\* _update_variant_ui: corpus key "<domain>:<base>-" of a wildcarded code
VariantKey(code) ==
    LET prefix == DropLast(code)
    IN  IF ~HasChar(prefix, ":")
        THEN IF ~EndsWithDash(prefix)
             THEN <<"g", "a", "m", "e", ":">> \o prefix \o <<"-">>
             ELSE <<"g", "a", "m", "e", ":">> \o prefix
        ELSE IF EndsWithDash(prefix) THEN prefix ELSE prefix \o <<"-">>

\* sorted(self.variant_index.get(key, []))
OptionsFor(vi, code) ==
    IF VariantKey(code) \in DOMAIN vi THEN vi[VariantKey(code)] ELSE {}

HiddenRow == [shown |-> FALSE, slot |-> 0, options |-> {}]

\* RecipeBuilderApp._update_variant_ui
UpdateVariantUi(g, sel, wv, vi) ==
    IF sel \notin DOMAIN g \/ Len(g[sel].code) = 0
        THEN [grid |-> g, row |-> HiddenRow]
    ELSE IF ~wv \/ ~EndsWithStar(g[sel].code)
        THEN [grid |-> g, row |-> HiddenRow]
    ELSE LET options == OptionsFor(vi, g[sel].code)
         IN  IF options = {}
             THEN [grid |-> g, row |-> HiddenRow]
             ELSE [grid |-> [g EXCEPT ![sel] = UpdateVariantsSummary(g[sel], options)],
                   row |-> [shown |-> TRUE, slot |-> sel, options |-> options]]

\* RecipeBuilderApp._update_side_for_selected
UpdateSideForSelected(g, sel, vi) ==
    IF sel \notin DOMAIN g
    THEN [grid |-> g, wildcard |-> FALSE, symbol |-> "", row |-> HiddenRow]
    ELSE LET wv == EndsWithStar(g[sel].code)
             u  == UpdateVariantUi(g, sel, wv, vi)
         IN  [grid |-> u.grid, wildcard |-> wv, symbol |-> g[sel].symbol,
              row |-> u.row]

\* RecipeBuilderApp._symbol_for_code: the letter, and code_to_symbol afterwards
SymbolForCode(g, c2s, code) ==
    LET used_letters == {g[s].symbol : s \in {t \in DOMAIN g : g[t].symbol # ""}}
        letters_of_code ==
            {g[s].symbol : s \in {t \in DOMAIN g : g[t].symbol # "" /\ g[t].code = code}}
        free == {i \in 1..Len(Alphabet) : Alphabet[i] \notin used_letters}
    IN  IF code \in DOMAIN c2s
           /\ ~(c2s[code] \in used_letters /\ c2s[code] \notin letters_of_code)
        THEN [letter |-> c2s[code], map |-> c2s]
        ELSE IF free # {}
        THEN LET i == CHOOSE i \in free : \A j \in free : i <= j
             IN  [letter |-> Alphabet[i], map |-> Put(c2s, code, Alphabet[i])]
        ELSE [letter |-> "X", map |-> Put(c2s, code, "X")]

\* RecipeBuilderApp._set_cell_item up to self.grid_items[r][c] = ing
SetCellItem(g, c2s, r, code) ==
    IF r \in DOMAIN g
    THEN [grid |-> [g EXCEPT ![r].code = code], map |-> c2s]
    ELSE LET sym == SymbolForCode(g, c2s, code)
         IN  [grid |-> Put(g, r, [code |-> code, symbol |-> sym.letter,
                                  allowed_variants |-> {}]),
              map |-> sym.map]

(***************************************************************************)
(* An open variant dialog holds a reference to the Ingredient object it    *)
(* was opened for, and the option list of that moment.  While the object   *)
(* is in the grid the reference is its slot.  Once the slot is deleted or  *)
(* the grid is reset the object is held by the dialog alone: ref is        *)
(* Orphan, and since no handler reads such an object again (the OK handler *)
(* writes it and destroys the dialog) its fields are not kept.             *)
(***************************************************************************)
Orphan == 0

\* the objects of the slots in S leave the grid
Detach(S, dlgs) ==
    {IF d.ref \in S THEN [d EXCEPT !.ref = Orphan] ELSE d : d \in dlgs}

(***************************************************************************)
(* Handlers.                                                               *)
(***************************************************************************)
\* RecipeBuilderApp.__init__ but for the discovery: the empty grid
InitGrid ==
    /\ grid_items = EmptyFn
    /\ selected = 1
    /\ wildcard_var = FALSE
    /\ symbol_var = ""
    /\ variants_row = HiddenRow
    /\ code_to_symbol = EmptyFn
    /\ dialogs = {}
    /\ error_box = ""

InitUI ==
    /\ InitGrid
    /\ \E d \in Discoveries :
          /\ used_survival_path = d.path
          /\ variant_index = d.index

\* the side panel after _update_side_for_selected on grid g
SidePanel(g, sel) ==
    LET u == UpdateSideForSelected(g, sel, variant_index)
    IN  /\ grid_items' = u.grid
        /\ wildcard_var' = u.wildcard
        /\ symbol_var' = u.symbol
        /\ variants_row' = u.row

\* RecipeBuilderApp._select_cell (a click on cell s)
SelectCell(s) ==
    /\ selected' = s
    /\ SidePanel(grid_items, s)
    /\ error_box' = ""
    /\ UNCHANGED <<code_to_symbol, variant_index, used_survival_path,
                   dialogs,
                   non_ui_vars>>

\* RecipeBuilderApp._open_cell_popup (double click on s, or Return on the
\* selected cell through _edit_selected).  The popup is a plain Toplevel: it
\* is not modal, any number of them may be open, and each stays open until
\* its OK is pressed.  Opening one changes nothing but the selection, so a
\* user can hold popups for every slot in reserve from the start; the open
\* popups are therefore not part of the state and PopupOk is always enabled.
OpenCellPopup(s) ==
    /\ selected' = s
    /\ SidePanel(grid_items, s)
    /\ error_box' = ""
    /\ UNCHANGED <<code_to_symbol, variant_index, used_survival_path, dialogs,
                   non_ui_vars>>

\* RecipeBuilderApp._open_cell_popup.ok, and through it _set_cell_item
PopupOk(s, code) ==
    /\ error_box' = ""
    /\ IF Len(code) = 0
       THEN UNCHANGED <<grid_items, wildcard_var, symbol_var, variants_row,
                        code_to_symbol>>
       ELSE LET r == SetCellItem(grid_items, code_to_symbol, s, code)
            IN  /\ SidePanel(r.grid, selected)
                /\ code_to_symbol' = r.map
    /\ UNCHANGED <<selected, variant_index, used_survival_path, dialogs,
                   non_ui_vars>>

\* RecipeBuilderApp._delete_selected
DeleteSelected ==
    /\ SidePanel(Remove(grid_items, selected), selected)
    /\ dialogs' = Detach({selected}, dialogs)
    /\ error_box' = ""
    /\ UNCHANGED <<selected, code_to_symbol, variant_index, used_survival_path, non_ui_vars>>

\* RecipeBuilderApp._side_apply.  clicked: the handler runs because the
\* "Allow variants (*)" box was clicked (the box flips wildcard_var first);
\* otherwise it runs on a key release in the quantity or tool-cost field.
SideApply(clicked) ==
    LET wv == IF clicked THEN ~wildcard_var ELSE wildcard_var
    IN  /\ wildcard_var' = wv
        /\ error_box' = ""
        /\ IF selected \notin DOMAIN grid_items
           THEN UNCHANGED <<grid_items, variants_row>>
           ELSE LET g == [grid_items EXCEPT
                              ![selected] = SideApplyWildcard(@, wv)]
                    u == UpdateVariantUi(g, selected, wv, variant_index)
                IN  /\ grid_items' = u.grid
                    /\ variants_row' = u.row
        /\ UNCHANGED <<selected, symbol_var, code_to_symbol, variant_index,
                       used_survival_path, dialogs,
                   non_ui_vars>>

\* mutation: the duplicate check across different codes is skipped
ApplySymbolLive_NoCheck(raw) ==
    LET first == FirstAlpha(raw)
    IN  /\ error_box' = ""
        /\ IF selected \notin DOMAIN grid_items
           THEN symbol_var' = "" /\ UNCHANGED <<grid_items, code_to_symbol>>
           ELSE IF first = ""
           THEN /\ symbol_var' = grid_items[selected].symbol
                /\ UNCHANGED <<grid_items, code_to_symbol>>
           ELSE LET code == grid_items[selected].code
                IN  /\ grid_items' =
                          [s \in DOMAIN grid_items |->
                              IF s = selected
                                 \/ (Len(code) > 0 /\ grid_items[s].code = code)
                              THEN [grid_items[s] EXCEPT !.symbol = first]
                              ELSE grid_items[s]]
                    /\ code_to_symbol' =
                          IF Len(code) > 0 THEN Put(code_to_symbol, code, first)
                          ELSE code_to_symbol
                    /\ symbol_var' = first
        /\ UNCHANGED <<selected, wildcard_var, variants_row, variant_index,
                       used_survival_path, dialogs,
                   non_ui_vars>>

\* RecipeBuilderApp._apply_symbol_live (with _propagate_symbol_for_code), after
\* the user has left raw in the symbol field
ApplySymbolLive(raw) ==
    LET first == FirstAlpha(raw)
    IN  /\ IF selected \notin DOMAIN grid_items
           THEN /\ symbol_var' = ""
                /\ error_box' = ""
                /\ UNCHANGED <<grid_items, code_to_symbol>>
           ELSE IF first = ""
           THEN /\ symbol_var' = grid_items[selected].symbol
                /\ error_box' = ""
                /\ UNCHANGED <<grid_items, code_to_symbol>>
           ELSE IF \E t \in (DOMAIN grid_items) \ {selected} :
                      /\ grid_items[t].code # grid_items[selected].code
                      /\ grid_items[t].symbol = first
           THEN /\ symbol_var' = grid_items[selected].symbol
                /\ error_box' = "Duplicate symbol"
                /\ UNCHANGED <<grid_items, code_to_symbol>>
           ELSE LET code == grid_items[selected].code
                IN  /\ grid_items' =
                          [s \in DOMAIN grid_items |->
                              IF s = selected
                                 \/ (Len(code) > 0 /\ grid_items[s].code = code)
                              THEN [grid_items[s] EXCEPT !.symbol = first]
                              ELSE grid_items[s]]
                    /\ code_to_symbol' =
                          IF Len(code) > 0 THEN Put(code_to_symbol, code, first)
                          ELSE code_to_symbol
                    /\ symbol_var' = first
                    /\ error_box' = ""
        /\ UNCHANGED <<selected, wildcard_var, variants_row, variant_index,
                       used_survival_path, dialogs,
                   non_ui_vars>>

\* variants_btn's command, open_dialog -> _open_variants_dialog up to the point
\* where the dialog is on screen (the row must be gridded for the click)
OpenVariantsDialog ==
    LET d == [ref |-> variants_row.slot, options |-> variants_row.options]
    IN  /\ variants_row.shown
        /\ d \notin dialogs
        /\ Cardinality(dialogs) < MaxDialogs
        /\ dialogs' = dialogs \cup {d}
        /\ error_box' = ""
        /\ UNCHANGED <<grid_items, selected, wildcard_var, symbol_var,
                       variants_row, code_to_symbol, variant_index,
                       used_survival_path, non_ui_vars>>

\* RecipeBuilderApp._open_variants_dialog.ok with the boxes of chosen ticked
DialogOk(d, chosen) ==
    /\ d \in dialogs
    /\ chosen \subseteq d.options
    /\ dialogs' = dialogs \ {d}
    /\ grid_items' =
          IF d.ref = Orphan THEN grid_items
          ELSE [grid_items EXCEPT
                   ![d.ref] = VariantsDialogOk(@, chosen, wildcard_var, d.options)]
    /\ error_box' = ""
    /\ UNCHANGED <<selected, wildcard_var, symbol_var, variants_row,
                   code_to_symbol, variant_index, used_survival_path,
                   non_ui_vars>>

\* the dialog window is closed without OK
DialogClose(d) ==
    /\ d \in dialogs
    /\ dialogs' = dialogs \ {d}
    /\ error_box' = ""
    /\ UNCHANGED <<grid_items, selected, wildcard_var, symbol_var, variants_row,
                   code_to_symbol, variant_index, used_survival_path,
                   non_ui_vars>>

\* RecipeBuilderApp._refresh_discovery with _build_variant_index, reached from
\* _change_env_key and _direct_search; found is what the run finds on disk
RefreshDiscovery(found) ==
    /\ used_survival_path' = found.path
    /\ variant_index' = IF found.path.found THEN found.index ELSE EmptyFn
    /\ error_box' = ""
    /\ UNCHANGED <<grid_items, selected, wildcard_var, symbol_var, variants_row,
                   code_to_symbol, dialogs,
                   non_ui_vars>>

\* RecipeBuilderApp.reset_all, confirmed
ResetAll ==
    /\ selected' = 1
    /\ SidePanel(EmptyFn, 1)
    /\ code_to_symbol' = EmptyFn
    /\ dialogs' = Detach(DOMAIN grid_items, dialogs)
    /\ error_box' = ""
    /\ UNCHANGED <<variant_index, used_survival_path, non_ui_vars>>

(***************************************************************************)
(* One Ingredient under the wildcard handlers alone, from any code a user  *)
(* can type: the toggle (_side_apply), the variant dialog's OK and         *)
(* _normalize_wildcard_code itself.                                        *)
(***************************************************************************)
\* characters of the codes the normalizer specification starts from
NormChars == {"a", "-", "*"}

\* tokens of the variant dialog in the normalizer specification
NormTokens == {"x", "y"}

NormIdle ==
    /\ n_ing = [code |-> <<>>, allowed_variants |-> {}]
    /\ n_wild = FALSE
    /\ n_prev = [code |-> <<>>, allowed_variants |-> {}]
    /\ n_start = <<>>
    /\ n_last = "init"

\* _set_cell_item with any non-empty code, then _update_side_for_selected
InitNorm ==
    /\ \E c \in StringsUpTo(NormChars, MaxLen) \ {<<>>}, av \in SUBSET NormTokens :
          /\ n_ing = [code |-> c, allowed_variants |-> av]
          /\ n_prev = [code |-> c, allowed_variants |-> av]
          /\ n_start = c
          /\ n_wild = EndsWithStar(c)
    /\ n_last = "init"

\* the "Allow variants (*)" box is clicked: _side_apply with the box flipped
NToggle ==
    /\ n_wild' = ~n_wild
    /\ n_prev' = n_ing
    /\ n_ing' = SideApplyWildcard(n_ing, ~n_wild)
    /\ n_last' = IF ~n_wild THEN "on" ELSE "off"
    /\ UNCHANGED <<n_start, non_norm_vars>>

\* the variant dialog is confirmed with the boxes of chosen ticked
NSetVariants(chosen) ==
    /\ n_prev' = n_ing
    /\ n_ing' = VariantsDialogOk(n_ing, chosen, n_wild, NormTokens)
    /\ n_last' = "variants"
    /\ UNCHANGED <<n_wild, n_start, non_norm_vars>>

\* _normalize_wildcard_code on its own
NNormalize ==
    /\ n_prev' = n_ing
    /\ n_ing' = NormalizeWildcardCode(n_ing)
    /\ n_last' = "normalize"
    /\ UNCHANGED <<n_wild, n_start, non_norm_vars>>

(***************************************************************************)
(* Asset root resolution (resolve_survival_dir and its helpers).           *)
(*                                                                         *)
(* A path is the sequence of its components, <<>> being "/".  A root as    *)
(* it is typed or stored in the environment is [kind, path]: "abs" for     *)
(* /p, "rel" for p, "home" for ~/p, "empty" for "" and "none" for None.    *)
(* The roots modelled hold no "$", "." or ".." component, so expandvars    *)
(* and the normalisation of abspath leave them as they are.                *)
(***************************************************************************)
Cwd == <<"g">>

Home == <<"g">>

NoneRoot == [kind |-> "none", path |-> <<>>]

EmptyRoot == [kind |-> "empty", path |-> <<>>]

AbsRoot(p) == [kind |-> "abs", path |-> p]

RelRoot(p) == [kind |-> "rel", path |-> p]

HomeRoot(p) == [kind |-> "home", path |-> p]

\* truth value of a str | None
Truthy(raw) == raw.kind \notin {"none", "empty"}

\* os.path.isabs
IsAbs(raw) == raw.kind = "abs"

\* os.path.abspath(os.path.expanduser(os.path.expandvars(root)))
Expand(raw) ==
    CASE raw.kind = "abs"  -> raw.path
      [] raw.kind = "home" -> Home \o raw.path
      [] OTHER             -> Cwd \o raw.path

\* os.path.dirname of an absolute path
Parent(p) == IF Len(p) = 0 THEN p ELSE SubSeq(p, 1, Len(p) - 1)

Survival == <<"assets", "survival">>

VsSurvival == <<"Vintagestory", "assets", "survival">>

\* mutation: the first two candidates change places
CandidateListFromRoot_Swapped(raw) ==
    LET root == Expand(raw)
    IN  << root \o VsSurvival,
           root \o Survival,
           Parent(root) \o VsSurvival,
           root >>

\* _candidate_list_from_root
CandidateListFromRoot(raw) ==
    LET root == Expand(raw)
    IN  << root \o Survival,
           root \o VsSurvival,
           Parent(root) \o VsSurvival,
           root >>

\* _validate_survival_dir
ValidateSurvivalDir(fs, path) ==
    path \in fs /\ (path \o <<"itemtypes">>) \in fs

\* one line of the log: which line it is and the values formatted into it
Line(k, key, raw, path, ok) ==
    [k |-> k, key |-> key, raw |-> raw, path |-> path, ok |-> ok]

StartLine == Line("start", "", NoneRoot, <<>>, FALSE)

NotAbsLine(raw) == Line("notabs", "", raw, <<>>, FALSE)

DirectLine(raw, expanded) == Line("direct", "", raw, expanded, FALSE)

TryLine(cand, ok) == Line("try", "", NoneRoot, cand, ok)

FoundLine(cand) == Line("found", "", NoneRoot, cand, TRUE)

EnvUnsetLine(key) == Line("envunset", key, NoneRoot, <<>>, FALSE)

EnvLine(key, val) == Line("env", key, val, <<>>, FALSE)

FailedLine == Line("failed", "", NoneRoot, <<>>, FALSE)

NotFound(logs) == [found |-> FALSE, path |-> <<>>, logs |-> logs]

\* the loop "for cand in _candidate_list_from_root(...)" from candidate i on
RECURSIVE TryCandidates(_, _, _, _)
TryCandidates(fs, cands, i, logs) ==
    IF i > Len(cands) THEN NotFound(logs)
    ELSE LET ok == ValidateSurvivalDir(fs, cands[i])
             l  == Append(logs, TryLine(cands[i], ok))
         IN  IF ok
             THEN [found |-> TRUE, path |-> cands[i],
                   logs |-> Append(l, FoundLine(cands[i]))]
             ELSE TryCandidates(fs, cands, i + 1, l)

\* os.environ.get
EnvGet(environ, key) == IF key \in DOMAIN environ THEN environ[key] ELSE NoneRoot

\* resolve_survival_dir, the block "if direct_root:"
ResolveDirect(direct_root, fs, logs) ==
    IF Truthy(direct_root)
    THEN LET expanded == Expand(direct_root)
             l1 == IF ~IsAbs(direct_root)
                   THEN Append(logs, NotAbsLine(direct_root)) ELSE logs
             l2 == Append(l1, DirectLine(direct_root, expanded))
         IN  TryCandidates(fs, CandidateListFromRoot(AbsRoot(expanded)), 1, l2)
    ELSE NotFound(logs)

\* resolve_survival_dir, the block "if env_key:"
ResolveEnv(env_key, environ, fs, logs) ==
    IF env_key # ""
    THEN LET val == EnvGet(environ, env_key)
         IN  IF ~Truthy(val)
             THEN NotFound(Append(logs, EnvUnsetLine(env_key)))
             ELSE TryCandidates(fs, CandidateListFromRoot(val), 1,
                                Append(logs, EnvLine(env_key, val)))
    ELSE NotFound(logs)

\* mutation: the environment is looked at only when no direct_root is given
ResolveSurvivalDir_Elif(env_key, direct_root, environ, fs) ==
    LET d == ResolveDirect(direct_root, fs, <<StartLine>>)
        e == IF Truthy(direct_root) THEN d
             ELSE ResolveEnv(env_key, environ, fs, d.logs)
    IN  IF e.found THEN e ELSE NotFound(Append(e.logs, FailedLine))

\* resolve_survival_dir
ResolveSurvivalDir(env_key, direct_root, environ, fs) ==
    LET d == ResolveDirect(direct_root, fs, <<StartLine>>)
    IN  IF d.found THEN d
        ELSE LET e == ResolveEnv(env_key, environ, fs, d.logs)
             IN  IF e.found THEN e
                 ELSE NotFound(Append(e.logs, FailedLine))

\* the installation the roots below point at
GameRoot == <<"g", "vs">>

\* directories that may exist, each with or without its itemtypes
DiskLeaves ==
    LET u == { GameRoot \o Survival, GameRoot \o VsSurvival,
               Parent(GameRoot) \o VsSurvival, GameRoot, Parent(GameRoot) }
    IN  u \cup { p \o <<"itemtypes">> : p \in u }

\* a directory exists with all the directories above it
PrefixClosure(L) == UNION { { SubSeq(p, 1, n) : n \in 0..Len(p) } : p \in L }

FileSystems == { PrefixClosure(L) : L \in SUBSET DiskLeaves }

\* values of direct_root, and of the environment variable
DirectRoots ==
    { NoneRoot, EmptyRoot, AbsRoot(GameRoot), RelRoot(<<"vs">>), HomeRoot(<<>>),
      AbsRoot(Parent(GameRoot) \o VsSurvival) }

EnvNames == {"VINTAGE_STORY"}

EnvValues == { EmptyRoot, AbsRoot(GameRoot), HomeRoot(<<>>) }

Environs == {EmptyFn} \cup { [k \in EnvNames |-> v] : v \in EnvValues }

EnvKeys == {""} \cup EnvNames

ResolveIdle ==
    /\ r_fs = {}
    /\ r_environ = EmptyFn
    /\ r_env_key = ""
    /\ r_direct_root = NoneRoot
    /\ r_survival = [found |-> FALSE, path |-> <<>>]
    /\ r_logs = <<>>
    /\ r_called = FALSE

\* a process with some disk and some environment, before any call
InitResolve ==
    /\ r_fs \in FileSystems
    /\ r_environ \in Environs
    /\ r_env_key = ""
    /\ r_direct_root = NoneRoot
    /\ r_survival = [found |-> FALSE, path |-> <<>>]
    /\ r_logs = <<>>
    /\ r_called = FALSE

\* a call resolve_survival_dir(env_key, direct_root)
Resolve(env_key, direct_root) ==
    LET res == ResolveSurvivalDir(env_key, direct_root, r_environ, r_fs)
    IN  /\ r_env_key' = env_key
        /\ r_direct_root' = direct_root
        /\ r_survival' = [found |-> res.found, path |-> res.path]
        /\ r_logs' = res.logs
        /\ r_called' = TRUE
        /\ UNCHANGED <<r_fs, r_environ, non_res_vars>>

(***************************************************************************)
(* Text scanning of definition files: _norm_pattern, _with_domain,         *)
(* _discover_codes_in_text and _collect_corpus_variants.                   *)
(*                                                                         *)
(* A text is the sequence of its characters.  The regular expressions are  *)
(* modelled by the matches Python's re finds: leftmost, one after the      *)
(* other without overlap, each quantifier as greedy or lazy as written.    *)
(***************************************************************************)
Digits == {"0", "1", "2", "3", "4", "5", "6", "7", "8", "9"}

\* \w, and [a-z0-9_] under re.I
IsWord(ch) == IsAlpha(ch) \/ ch \in Digits \/ ch = "_"

\* \s, and what str.strip() removes
IsSpace(ch) == ch \in {" ", "\n", "\t"}

\* str.lower() on one character
Lower(ch) ==
    IF \E i \in 1..Len(Alphabet) : Alphabet[i] = ch
    THEN LowerCase[CHOOSE i \in 1..Len(Alphabet) : Alphabet[i] = ch]
    ELSE ch

LowerAll(s) == [i \in 1..Len(s) |-> Lower(s[i])]

\* first index >= i of s that holds ch, 0 if there is none
RECURSIVE IndexOf(_, _, _)
IndexOf(s, ch, i) ==
    IF i > Len(s) THEN 0
    ELSE IF s[i] = ch THEN i
    ELSE IndexOf(s, ch, i + 1)

\* s[i:j] of Python with 1-based i and exclusive j
Slice(s, i, j) == SubSeq(s, i, j - 1)

\* s starts with lit at index i
MatchLit(s, i, lit) ==
    /\ i + Len(lit) - 1 <= Len(s)
    /\ \A k \in 1..Len(lit) : s[i + k - 1] = lit[k]

\* \b at index i: between s[i-1] and s[i] exactly one is a word character
WordBoundary(s, i) ==
    LET before == i > 1 /\ i - 1 <= Len(s) /\ IsWord(s[i - 1])
        after  == i >= 1 /\ i <= Len(s) /\ IsWord(s[i])
    IN  before # after

\* \s* from index i: the index of the first character that is no space
RECURSIVE SkipSpace(_, _)
SkipSpace(s, i) ==
    IF i <= Len(s) /\ IsSpace(s[i]) THEN SkipSpace(s, i + 1) ELSE i

\* [a-z0-9_]+ from index i, greedy: the index after the run (i if empty)
RECURSIVE SkipWord(_, _)
SkipWord(s, i) ==
    IF i <= Len(s) /\ IsWord(s[i]) THEN SkipWord(s, i + 1) ELSE i

\* re.sub(r"\{[^}]+\}", "*", s) from index i on
RECURSIVE SubBraces(_, _)
SubBraces(s, i) ==
    IF i > Len(s) THEN <<>>
    ELSE LET j == IF s[i] = "{" THEN IndexOf(s, "}", i + 1) ELSE 0
         IN  IF j > i + 1
             THEN <<"*">> \o SubBraces(s, j + 1)
             ELSE <<s[i]>> \o SubBraces(s, i + 1)

\* re.sub(r"\*{2,}", "*", s)
RECURSIVE CollapseStars(_)
CollapseStars(s) ==
    IF Len(s) = 0 THEN s
    ELSE IF Len(s) >= 2 /\ s[1] = "*" /\ s[2] = "*" THEN CollapseStars(Tail(s))
    ELSE <<Head(s)>> \o CollapseStars(Tail(s))

\* mutation of the collapse: each pair of stars becomes one star, once
RECURSIVE CollapsePairs(_)
CollapsePairs(s) ==
    IF Len(s) = 0 THEN s
    ELSE IF Len(s) >= 2 /\ s[1] = "*" /\ s[2] = "*"
         THEN <<"*">> \o CollapsePairs(Tail(Tail(s)))
    ELSE <<Head(s)>> \o CollapsePairs(Tail(s))

\* str.strip()
RECURSIVE Strip(_)
Strip(s) ==
    IF Len(s) = 0 THEN s
    ELSE IF IsSpace(s[1]) THEN Strip(Tail(s))
    ELSE IF IsSpace(s[Len(s)]) THEN Strip(SubSeq(s, 1, Len(s) - 1))
    ELSE s

\* mutation: runs of stars are collapsed pair by pair in one pass
NormPattern_PairCollapse(s) == Strip(CollapsePairs(SubBraces(s, 1)))

\* _norm_pattern
NormPattern(s) == Strip(CollapseStars(SubBraces(s, 1)))

GamePrefix == <<"g", "a", "m", "e", ":">>

\* _with_domain
WithDomain(code) == IF HasChar(code, ":") THEN code ELSE GamePrefix \o code

NoMatch == [ok |-> FALSE, start |-> 0, val |-> <<>>, end |-> 0]

\* _STR_RE at index i: "..." or '...' with at least one character inside;
\* end is the index after the closing quote
MatchStr(s, i) ==
    IF i <= Len(s) /\ s[i] \in {"\"", "'"}
    THEN LET j == IndexOf(s, s[i], i + 1)
         IN  IF j > i + 1
             THEN [ok |-> TRUE, start |-> i, val |-> Slice(s, i + 1, j), end |-> j + 1]
             ELSE NoMatch
    ELSE NoMatch

\* \bkey\s*:\s* at index i: the index after it, 0 if it does not match
KeyColonAt(s, i, key) ==
    IF WordBoundary(s, i) /\ MatchLit(s, i, key)
    THEN LET a == SkipSpace(s, i + Len(key))
         IN  IF a <= Len(s) /\ s[a] = ":" THEN SkipSpace(s, a + 1) ELSE 0
    ELSE 0

KeyCode == <<"c", "o", "d", "e">>

KeyPath == <<"p", "a", "t", "h">>

KeyAllowedVariants == <<"a", "l", "l", "o", "w", "e", "d", "V", "a", "r", "i", "a", "n", "t", "s">>

KeyGroupBy == <<"g", "r", "o", "u", "p", "B", "y">>

\* r'\bcode\s*:\s*' + _STR_RE at index i
Rule1At(s, i) ==
    LET k == KeyColonAt(s, i, KeyCode)
    IN  IF k = 0 THEN NoMatch ELSE [MatchStr(s, k) EXCEPT !.start = i]

\* [^{}]*?\bpath\s*:\s* + _STR_RE from index p, lazily
RECURSIVE PathFrom(_, _)
PathFrom(s, p) ==
    LET k == KeyColonAt(s, p, KeyPath)
        m == IF k = 0 THEN NoMatch ELSE MatchStr(s, k)
    IN  IF m.ok THEN m
        ELSE IF p <= Len(s) /\ s[p] \notin {"{", "}"} THEN PathFrom(s, p + 1)
        ELSE NoMatch

\* r'\bcode\s*:\s*\{[^{}]*?\bpath\s*:\s*' + _STR_RE at index i
Rule2At(s, i) ==
    LET k == KeyColonAt(s, i, KeyCode)
    IN  IF k # 0 /\ k <= Len(s) /\ s[k] = "{"
        THEN [PathFrom(s, k + 1) EXCEPT !.start = i]
        ELSE NoMatch

\* r'\bkey\s*:\s*\[(.*?)\]' at index i; val is the body between the brackets
ListAt(s, i, key) ==
    LET k == KeyColonAt(s, i, key)
        j == IF k # 0 /\ k <= Len(s) /\ s[k] = "[" THEN IndexOf(s, "]", k + 1) ELSE 0
    IN  IF j # 0
        THEN [ok |-> TRUE, start |-> i, val |-> Slice(s, k + 1, j), end |-> j + 1]
        ELSE NoMatch

\* re.finditer for the four patterns: the matches from index i on, in order
RECURSIVE Rule1Matches(_, _)
Rule1Matches(s, i) ==
    IF i > Len(s) THEN <<>>
    ELSE IF Rule1At(s, i).ok
         THEN <<Rule1At(s, i)>> \o Rule1Matches(s, Rule1At(s, i).end)
         ELSE Rule1Matches(s, i + 1)

RECURSIVE Rule2Matches(_, _)
Rule2Matches(s, i) ==
    IF i > Len(s) THEN <<>>
    ELSE IF Rule2At(s, i).ok
         THEN <<Rule2At(s, i)>> \o Rule2Matches(s, Rule2At(s, i).end)
         ELSE Rule2Matches(s, i + 1)

RECURSIVE ListMatches(_, _, _)
ListMatches(s, i, key) ==
    IF i > Len(s) THEN <<>>
    ELSE IF ListAt(s, i, key).ok
         THEN <<ListAt(s, i, key)>> \o ListMatches(s, ListAt(s, i, key).end, key)
         ELSE ListMatches(s, i + 1, key)

RECURSIVE StrMatches(_, _)
StrMatches(s, i) ==
    IF i > Len(s) THEN <<>>
    ELSE IF MatchStr(s, i).ok
         THEN <<MatchStr(s, i)>> \o StrMatches(s, MatchStr(s, i).end)
         ELSE StrMatches(s, i + 1)

\* the values of a sequence of matches
Vals(ms) == { ms[i].val : i \in 1..Len(ms) }

\* "-*" in base
HasDashStar(base) == \E i \in 1..(Len(base) - 1) : base[i] = "-" /\ base[i + 1] = "*"

\* _discover_codes_in_text, rule 1: what one value adds
Rule1Adds(val) ==
    LET base == WithDomain(NormPattern(val))
    IN  {base} \cup (IF ~EndsWithStar(base) /\ ~HasDashStar(base)
                     THEN {base \o <<"-", "*">>} ELSE {})

Rule1Codes(text) == UNION { Rule1Adds(v) : v \in Vals(Rule1Matches(text, 1)) }

\* rule 2
Rule2Codes(text) == { WithDomain(NormPattern(v)) : v \in Vals(Rule2Matches(text, 1)) }

\* rules 3 and 4
ListCodes(text, key) ==
    UNION { { WithDomain(NormPattern(v)) : v \in Vals(StrMatches(body, 1)) } :
            body \in Vals(ListMatches(text, 1, key)) }

\* mutation: rule 1 adds no "-*" sibling
DiscoverCodesInText_NoSibling(text) ==
    { WithDomain(NormPattern(v)) : v \in Vals(Rule1Matches(text, 1)) }
        \cup Rule2Codes(text)
        \cup ListCodes(text, KeyAllowedVariants) \cup ListCodes(text, KeyGroupBy)

\* mutation: rule 2 adds the path without its domain
DiscoverCodesInText_NoDomain(text) ==
    Rule1Codes(text)
        \cup { NormPattern(v) : v \in Vals(Rule2Matches(text, 1)) }
        \cup ListCodes(text, KeyAllowedVariants) \cup ListCodes(text, KeyGroupBy)

\* _discover_codes_in_text
DiscoverCodesInText(text) ==
    Rule1Codes(text) \cup Rule2Codes(text)
        \cup ListCodes(text, KeyAllowedVariants) \cup ListCodes(text, KeyGroupBy)

NoTriple == [ok |-> FALSE, dom |-> <<>>, base |-> <<>>, token |-> <<>>, end |-> 0]

\* a run of word characters starts at index i after a \b
WordStart(s, i) == i <= Len(s) /\ IsWord(s[i]) /\ WordBoundary(s, i)

\* rex_dom at index i: \b([a-z0-9_]+):([a-z0-9_]+)-([a-z0-9_]+)\b
DomAt(s, i) ==
    IF ~WordStart(s, i) THEN NoTriple
    ELSE LET a == SkipWord(s, i)
             b == SkipWord(s, a + 1)
             c == SkipWord(s, b + 1)
         IN  IF /\ a <= Len(s) /\ s[a] = ":"
                /\ b > a + 1 /\ b <= Len(s) /\ s[b] = "-"
                /\ c > b + 1
             THEN [ok |-> TRUE, dom |-> LowerAll(Slice(s, i, a)),
                   base |-> Slice(s, a + 1, b), token |-> Slice(s, b + 1, c),
                   end |-> c]
             ELSE NoTriple

\* rex_nodom at index i: \b([a-z0-9_]+)-([a-z0-9_]+)\b, added under "game"
NoDomAt(s, i) ==
    IF ~WordStart(s, i) THEN NoTriple
    ELSE LET a == SkipWord(s, i)
             b == SkipWord(s, a + 1)
         IN  IF a <= Len(s) /\ s[a] = "-" /\ b > a + 1
             THEN [ok |-> TRUE, dom |-> <<"g", "a", "m", "e">>,
                   base |-> Slice(s, i, a), token |-> Slice(s, a + 1, b),
                   end |-> b]
             ELSE NoTriple

RECURSIVE DomMatches(_, _)
DomMatches(s, i) ==
    IF i > Len(s) THEN {}
    ELSE IF DomAt(s, i).ok
         THEN {DomAt(s, i)} \cup DomMatches(s, DomAt(s, i).end)
         ELSE DomMatches(s, i + 1)

RECURSIVE NoDomMatches(_, _)
NoDomMatches(s, i) ==
    IF i > Len(s) THEN {}
    ELSE IF NoDomAt(s, i).ok
         THEN {NoDomAt(s, i)} \cup NoDomMatches(s, NoDomAt(s, i).end)
         ELSE NoDomMatches(s, i + 1)

\* add(dom, base, token): the key the token goes under
CorpusKey(m) == m.dom \o <<":">> \o m.base \o <<"-">>

\* _collect_corpus_variants over the texts of the definition files found
\* under itemtypes and blocktypes
CollectCorpusVariants(files) ==
    LET ms   == UNION { DomMatches(f, 1) \cup NoDomMatches(f, 1) : f \in files }
        keys == { CorpusKey(m) : m \in ms }
    IN  [k \in keys |-> { m.token : m \in { x \in ms : CorpusKey(x) = k } }]

\* identifiers used as item names in the texts
Idents == { <<"a">>, <<"b", "1">> }

\* code: "foo" as it stands in a definition file
CodeEntry(foo) == KeyCode \o <<":", " ", "\"">> \o foo \o <<"\"">>

\* texts with code: "foo" after and before other characters
CodeTexts ==
    { pre \o CodeEntry(foo) \o post :
        pre \in { <<>>, <<" ">>, <<"\n">>, <<"{">>, <<"-">>, <<"x">>, <<"_">>,
                  <<"'">>, KeyCode \o <<":", "'">> },
        foo \in Idents,
        post \in { <<>>, <<",">>, <<"x">>, <<"'">> } }

\* code: { path: "foo-*" } with white space, other keys or braces inside
PathTexts ==
    { KeyCode \o w1 \o <<":">> \o w2 \o <<"{">> \o mid \o KeyPath \o <<":">>
          \o w1 \o <<qt>> \o foo \o <<"-", "*">> \o <<qt>> \o w2 \o <<"}">> :
        w1 \in { <<>>, <<" ">> },
        w2 \in { <<" ">>, <<"\n">> },
        mid \in { <<>>, <<" ">>, <<"\n", "\t">>, <<"x", ":", "1", ",", " ">>,
                  <<"{", "}", " ">>, <<"x">> },
        qt \in { "\"", "'" },
        foo \in Idents }

\* code: "<value>" for every value up to MaxValLen characters
ValueTexts ==
    { KeyCode \o <<":", " ", "\"">> \o v \o <<"\"">> :
        v \in StringsUpTo({"a", "-", "*", "{", "}"}, MaxValLen) \ {<<>>} }

\* allowedVariants: [...] and groupBy: [...]
ListTexts ==
    { key \o <<":", " ", "[">> \o body \o <<"]">> :
        key \in { KeyAllowedVariants, KeyGroupBy },
        body \in { <<>>, <<"\"", "a", "-", "*", "\"">>,
                   <<"'", "a", "'", ",", " ", "\"", "m", ":", "b", "\"">>,
                   <<"\"", "a", "-", "{", "m", "}", "\"">>,
                   <<"\"", "\"">>, <<"\"", "a">> } }

\* strings given to _norm_pattern: braces, stars, a letter and blanks
NormInputs == StringsUpTo({"{", "}", "*", "a", " "}, MaxNormLen)

\* triples as they stand in definition files, alone or two on a line
CorpusItems ==
    { <<"g", "a", "m", "e", ":", "a", "-", "x">>, <<"g", "a", "m", "e", ":", "a", "-", "y">>, <<"m", ":", "a", "-", "x">>, <<"G", ":", "b", "-", "z">>, <<"a", "-", "y">>, <<"a">> }

CorpusTexts ==
    CorpusItems \cup { i \o <<" ">> \o j : i \in CorpusItems, j \in CorpusItems }

ScanTexts == CodeTexts \cup PathTexts \cup ValueTexts \cup ListTexts
                \cup NormInputs \cup CorpusTexts

ScanIdle ==
    /\ s_text = <<>>
    /\ s_codes = {}
    /\ s_norm = <<>>
    /\ s_corpus = EmptyFn
    /\ s_done = {}

InitScan ==
    /\ s_text \in ScanTexts
    /\ s_codes = {}
    /\ s_norm = <<>>
    /\ s_corpus = EmptyFn
    /\ s_done = {}

\* _discover_codes_in_text(s_text)
DiscoverCodes ==
    /\ "discover" \notin s_done
    /\ s_codes' = DiscoverCodesInText(s_text)
    /\ s_done' = s_done \cup {"discover"}
    /\ UNCHANGED <<s_text, s_norm, s_corpus, non_scan_vars>>

\* _norm_pattern(s_text)
NormalizePattern ==
    /\ "norm" \notin s_done
    /\ s_norm' = NormPattern(s_text)
    /\ s_done' = s_done \cup {"norm"}
    /\ UNCHANGED <<s_text, s_codes, s_corpus, non_scan_vars>>

\* _collect_corpus_variants over a tree whose one definition file is s_text
CollectCorpus ==
    /\ "corpus" \notin s_done
    /\ s_corpus' = CollectCorpusVariants({s_text})
    /\ s_done' = s_done \cup {"corpus"}
    /\ UNCHANGED <<s_text, s_codes, s_norm, non_scan_vars>>

NoDoc == [some |-> FALSE, pattern |-> <<>>, ingredients |-> EmptyFn, output |-> <<>>]

\* RecipeBuilderApp.__init__ before any discovery, nothing typed or copied
AppIdle ==
    /\ self_env_key = "VINTAGE_STORY"
    /\ self_direct_root = NoneRoot
    /\ discovered_items = {}
    /\ output_code_var = <<>>
    /\ clipboard = NoDoc

(***************************************************************************)
(* JSON5 export (build_json5_text and copy_json5).                         *)
(*                                                                         *)
(* The document is the record of what the text holds: the pattern, the     *)
(* ingredients mapping (letter -> code and allowedVariants, the latter     *)
(* written only when not empty) and the code of the output.  The modelled  *)
(* slots are the first cells of the first grid row, so the pattern is the  *)
(* sequence of their letters.                                              *)
(***************************************************************************)
\* "ing and ing.code"
Filled(g, s) == s \in DOMAIN g /\ Len(g[s].code) > 0

\* one pass over the cells from slot s on, reading
\* "ing.symbol or self._symbol_for_code(ing.code)": the letters read, and
\* code_to_symbol as the calls leave it
RECURSIVE SymbolPass(_, _, _)
SymbolPass(g, c2s, s) ==
    IF s > NumSlots THEN [syms |-> <<>>, map |-> c2s]
    ELSE IF ~Filled(g, s)
    THEN LET rest == SymbolPass(g, c2s, s + 1)
         IN  [syms |-> <<"_">> \o rest.syms, map |-> rest.map]
    ELSE LET look == IF g[s].symbol # ""
                     THEN [letter |-> g[s].symbol, map |-> c2s]
                     ELSE SymbolForCode(g, c2s, g[s].code)
             rest == SymbolPass(g, look.map, s + 1)
         IN  [syms |-> <<look.letter>> \o rest.syms, map |-> rest.map]

\* RecipeBuilderApp._build_ingredient_pattern
BuildIngredientPattern(g, c2s) == SymbolPass(g, c2s, 1)

\* RecipeBuilderApp._collect_ingredients_dict: letter -> the first Ingredient
\* that carries it; syms are the letters its pass over the cells reads
CollectIngredientsDict(g, syms) ==
    LET filled == {s \in Slots : Filled(g, s)}
    IN  [sym \in {syms[s] : s \in filled} |->
            g[CHOOSE s \in filled :
                  /\ syms[s] = sym
                  /\ \A t \in filled : syms[t] = sym => s <= t]]

Placeholder == <<"g", "a", "m", "e", ":", "_", "_", "s", "e", "t", "_", "o", "u", "t", "p", "u", "t", "_", "_">>

\* RecipeBuilderApp.build_json5_text writing the output field as it stands
BuildJson5Text_NoPlaceholder(g, c2s, out) ==
    LET pat == BuildIngredientPattern(g, c2s)
        again == SymbolPass(g, pat.map, 1)
        ing_map == CollectIngredientsDict(g, again.syms)
    IN  [doc |-> [some |-> TRUE,
                  pattern |-> pat.syms,
                  ingredients |->
                      [sym \in DOMAIN ing_map |->
                          [code |-> ing_map[sym].code,
                           allowedVariants |-> ing_map[sym].allowed_variants]],
                  output |-> Strip(out)],
         map |-> again.map]

\* RecipeBuilderApp.build_json5_text: the document, and code_to_symbol as its
\* two passes over the cells leave it
BuildJson5Text(g, c2s, out) ==
    LET pat == BuildIngredientPattern(g, c2s)
        again == SymbolPass(g, pat.map, 1)
        ing_map == CollectIngredientsDict(g, again.syms)
    IN  [doc |-> [some |-> TRUE,
                  pattern |-> pat.syms,
                  ingredients |->
                      [sym \in DOMAIN ing_map |->
                          [code |-> ing_map[sym].code,
                           allowedVariants |-> ing_map[sym].allowed_variants]],
                  output |-> IF Len(Strip(out)) > 0 THEN Strip(out)
                             ELSE Placeholder],
         map |-> again.map]

\* texts a user leaves in the output field
OutputCodes == { <<>>, <<" ">>, <<" ", "g", " ">> }

\* the user edits the output field (result_entry)
SetOutputCode(v) ==
    /\ output_code_var # v
    /\ output_code_var' = v
    /\ UNCHANGED <<self_env_key, self_direct_root, discovered_items, clipboard,
                   ui_vars, norm_vars, res_vars, scan_vars>>

\* RecipeBuilderApp.copy_json5, pressed when the clipboard does not hold the
\* current document already
CopyJson5 ==
    LET built == BuildJson5Text(grid_items, code_to_symbol, output_code_var)
    IN  /\ clipboard # built.doc
        /\ clipboard' = built.doc
        /\ code_to_symbol' = built.map
        /\ error_box' = ""
        /\ UNCHANGED <<grid_items, selected, wildcard_var, symbol_var,
                       variants_row, variant_index, used_survival_path, dialogs,
                       self_env_key, self_direct_root, discovered_items,
                       output_code_var, norm_vars, res_vars, scan_vars>>

(***************************************************************************)
(* Discovery (discover_game_codes, _build_variant_index and the Discovery  *)
(* menu).  The disk and the environment are r_fs and r_environ; every      *)
(* itemtypes or blocktypes directory on the disk holds one definition      *)
(* file, with the text ItemFile.  r_env_key .. r_called hold the last call *)
(* of resolve_survival_dir, whoever made it.                               *)
(***************************************************************************)
ItemFile == <<"c", "o", "d", "e", ":", " ", "\"", "g", "a", "m", "e", ":", "a", "-", "x", "\"">>

\* the texts of the .json / .json5 files os.walk finds under survival
DefinitionFiles(fs, survival) ==
    { ItemFile : kind \in { k \in {"itemtypes", "blocktypes"} :
                              (survival \o <<k>>) \in fs } }

\* the files on a disk never change: what the scanning functions return for
\* them, computed once
CodesInFile == [t \in {ItemFile} |-> DiscoverCodesInText(t)]

CorpusOfFiles == [F \in SUBSET {ItemFile} |-> CollectCorpusVariants(F)]

\* discover_game_codes: the codes (as a set), the path, and the resolver's
\* result
DiscoverGameCodes(env_key, direct_root, environ, fs) ==
    LET res == ResolveSurvivalDir(env_key, direct_root, environ, fs)
    IN  IF ~res.found
        THEN [items |-> {}, path |-> NoPath, res |-> res]
        ELSE [items |-> UNION { CodesInFile[t] :
                                  t \in DefinitionFiles(fs, res.path) },
              path |-> [found |-> TRUE, path |-> res.path],
              res |-> res]

\* RecipeBuilderApp._build_variant_index
BuildVariantIndex(path, fs) ==
    IF path.found THEN CorpusOfFiles[DefinitionFiles(fs, path.path)]
    ELSE EmptyFn

\* disks the application is started on
AppDisks ==
    { PrefixClosure(L) :
        L \in SUBSET { GameRoot \o Survival \o <<"itemtypes">>,
                       GameRoot \o Survival,
                       Parent(GameRoot) \o VsSurvival \o <<"itemtypes">> } }

\* RecipeBuilderApp.__init__ on some disk with some environment
InitApp ==
    /\ InitGrid
    /\ r_fs \in AppDisks
    /\ r_environ \in Environs
    /\ self_env_key = "VINTAGE_STORY"
    /\ self_direct_root = NoneRoot
    /\ LET found == DiscoverGameCodes("VINTAGE_STORY", NoneRoot, r_environ, r_fs)
       IN  /\ discovered_items = found.items
           /\ used_survival_path = found.path
           /\ variant_index = BuildVariantIndex(found.path, r_fs)
           /\ r_env_key = "VINTAGE_STORY"
           /\ r_direct_root = NoneRoot
           /\ r_survival = [found |-> found.res.found, path |-> found.res.path]
           /\ r_logs = found.res.logs
           /\ r_called = TRUE
    /\ output_code_var = <<>>
    /\ clipboard = NoDoc

\* RecipeBuilderApp._refresh_discovery with _build_variant_index, on the disk
RefreshOnDisk(env_key, direct_root) ==
    /\ LET found == DiscoverGameCodes(env_key, direct_root, r_environ, r_fs)
       IN  /\ discovered_items' = found.items
           /\ used_survival_path' = found.path
           /\ variant_index' = BuildVariantIndex(found.path, r_fs)
           /\ r_env_key' = env_key
           /\ r_direct_root' = direct_root
           /\ r_survival' = [found |-> found.res.found, path |-> found.res.path]
           /\ r_logs' = found.res.logs
           /\ r_called' = TRUE
    /\ error_box' = ""
    /\ UNCHANGED <<grid_items, selected, wildcard_var, symbol_var, variants_row,
                   code_to_symbol, dialogs, r_fs, r_environ, output_code_var,
                   clipboard, norm_vars, scan_vars>>

\* what the user leaves in the "Change Environment" dialog, stripped
EnvKeyInputs == {"", "VINTAGE_STORY", "VS"}

\* RecipeBuilderApp._change_env_key, the dialog confirmed with text val
ChangeEnvKey(val) ==
    LET key == IF val # "" THEN val ELSE self_env_key
    IN  /\ self_env_key' = key
        /\ UNCHANGED self_direct_root
        /\ RefreshOnDisk(key, self_direct_root)

\* os.path.expanduser(os.path.expandvars(val)) without the "~" expansion
ExpandUser_Off(raw) == raw

\* os.path.expanduser(os.path.expandvars(val)) on a root without "$"
ExpandUser(raw) ==
    IF raw.kind = "home" THEN AbsRoot(Home \o raw.path) ELSE raw

\* RecipeBuilderApp._direct_search, the dialog confirmed with text val
DirectSearch(val) ==
    LET expanded == ExpandUser(val)
    IN  IF ~IsAbs(expanded)
        THEN /\ error_box' = "Path must be absolute"
             /\ UNCHANGED <<grid_items, selected, wildcard_var, symbol_var,
                            variants_row, code_to_symbol, variant_index,
                            used_survival_path, dialogs, non_ui_vars>>
        ELSE /\ self_direct_root' = expanded
             /\ UNCHANGED self_env_key
             /\ RefreshOnDisk(self_env_key, expanded)

\* resolve_survival_dir called on the disk of the application
ResolveCall(env_key, direct_root) ==
    /\ <<r_env_key, r_direct_root>> # <<env_key, direct_root>>
    /\ Resolve(env_key, direct_root)

(***************************************************************************)
(* Specifications.                                                         *)
(***************************************************************************)
Init == InitUI /\ NormIdle /\ ResolveIdle /\ ScanIdle /\ AppIdle

Next ==
    \/ \E s \in Slots : SelectCell(s)
    \/ \E s \in Slots : OpenCellPopup(s)
    \/ \E s \in Slots, code \in InputCodes \cup {<<>>} : PopupOk(s, code)
    \/ DeleteSelected
    \/ \E clicked \in BOOLEAN : SideApply(clicked)
    \/ \E raw \in RawSymbols : ApplySymbolLive(raw)
    \/ OpenVariantsDialog
    \/ \E d \in dialogs : \E chosen \in SUBSET d.options : DialogOk(d, chosen)
    \/ \E d \in dialogs : DialogClose(d)
    \/ \E found \in Discoveries : RefreshDiscovery(found)
    \/ ResetAll

Spec == Init /\ [][Next]_vars

NextNorm ==
    \/ NToggle
    \/ \E chosen \in SUBSET NormTokens : NSetVariants(chosen)
    \/ NNormalize

\* the editor as constructed with no asset root found, and left alone
UIIdle == InitUI /\ used_survival_path = NoPath

InitNormSpec == InitNorm /\ UIIdle /\ ResolveIdle /\ ScanIdle /\ AppIdle

SpecNorm == InitNormSpec /\ [][NextNorm]_vars

NextResolve ==
    \/ \E env_key \in EnvKeys, direct_root \in DirectRoots :
          Resolve(env_key, direct_root)

InitResolveSpec == InitResolve /\ UIIdle /\ NormIdle /\ ScanIdle /\ AppIdle

SpecResolve == InitResolveSpec /\ [][NextResolve]_vars

NextScan ==
    \/ DiscoverCodes
    \/ NormalizePattern
    \/ CollectCorpus

InitScanSpec == InitScan /\ UIIdle /\ NormIdle /\ ResolveIdle /\ AppIdle

SpecScan == InitScanSpec /\ [][NextScan]_vars

NextExport ==
    \/ \E s \in Slots : SelectCell(s)
    \/ \E s \in Slots, code \in InputCodes : PopupOk(s, code)
    \/ DeleteSelected
    \/ \E raw \in RawSymbols : ApplySymbolLive(raw)
    \/ \E v \in OutputCodes : SetOutputCode(v)
    \/ CopyJson5

InitExportSpec == UIIdle /\ NormIdle /\ ResolveIdle /\ ScanIdle /\ AppIdle

SpecExport == InitExportSpec /\ [][NextExport]_vars

NextDiscovery ==
    \/ \E val \in EnvKeyInputs : ChangeEnvKey(val)
    \/ \E val \in DirectRoots \ {NoneRoot} : DirectSearch(val)
    \/ \E env_key \in EnvKeys, direct_root \in DirectRoots :
          ResolveCall(env_key, direct_root)
    \/ \E v \in OutputCodes : SetOutputCode(v)
    \/ CopyJson5

InitDiscoverySpec == InitApp /\ NormIdle /\ ScanIdle

SpecDiscovery == InitDiscoverySpec /\ [][NextDiscovery]_vars

(***************************************************************************)
(* Properties of the grid editor.                                          *)
(***************************************************************************)

\* C1: every ingredient in the grid has allowed_variants non-empty only with
\* a code ending in "-*", and allowed_variants empty with a wildcarded code
\* only when the code ends in a bare "*" (not "-*").
C1_VariantsMatchCode ==
    \A s \in DOMAIN grid_items :
        /\ grid_items[s].allowed_variants # {}
              => EndsWithDashStar(grid_items[s].code)
        /\ (grid_items[s].allowed_variants = {} /\ EndsWithStar(grid_items[s].code))
              => ~EndsWithDashStar(grid_items[s].code)

\* C2: two filled slots carry the same symbol if and only if they carry the
\* same code.
C2_SymbolIffCode ==
    \A s, t \in DOMAIN grid_items :
        (Len(grid_items[s].code) > 0 /\ Len(grid_items[t].code) > 0)
            => ((grid_items[s].symbol = grid_items[t].symbol)
                    <=> (grid_items[s].code = grid_items[t].code))

\* the letter is the symbol of another grid ingredient with a different code
SymbolTaken(letter) ==
    /\ selected \in DOMAIN grid_items
    /\ letter # ""
    /\ \E t \in (DOMAIN grid_items) \ {selected} :
          /\ grid_items[t].code # grid_items[selected].code
          /\ grid_items[t].symbol = letter

\* C3: when _apply_symbol_live is asked for a letter that another ingredient
\* with a different code already has, nothing is written: every symbol in the
\* grid and code_to_symbol stay as they were, the symbol field goes back to
\* the selected ingredient's symbol (which it showed before the edit), and
\* the "Duplicate symbol" error box is raised.
C3_CollisionRejected ==
    [][\A raw \in RawSymbols :
          (ApplySymbolLive(raw) /\ SymbolTaken(FirstAlpha(raw)))
              => /\ grid_items' = grid_items
                 /\ code_to_symbol' = code_to_symbol
                 /\ symbol_var' = grid_items[selected].symbol
                 /\ symbol_var' = symbol_var
                 /\ error_box' = "Duplicate symbol"]_vars

\* C3 witness: a rejection has just happened, with two different codes and
\* two different symbols in the grid.
C3_Witness ==
    /\ error_box = "Duplicate symbol"
    /\ selected \in DOMAIN grid_items
    /\ symbol_var = grid_items[selected].symbol
    /\ \E t \in (DOMAIN grid_items) \ {selected} :
          /\ grid_items[t].code # grid_items[selected].code
          /\ grid_items[t].symbol # grid_items[selected].symbol

\* the variant picker may be offered for the ingredient of slot s: its code is
\* wildcarded and its corpus key has tokens in the current variant_index
PickerJustified(s) ==
    /\ s \in DOMAIN grid_items
    /\ EndsWithStar(grid_items[s].code)
    /\ VariantKey(grid_items[s].code) \in DOMAIN variant_index
    /\ variant_index[VariantKey(grid_items[s].code)] # {}

\* C8: whenever the variants row is shown, or a picker dialog for a grid
\* ingredient is open, that ingredient's code ends in "*" and its corpus key
\* has a non-empty token set in the current variant_index.
C8_PickerOnlyWithCorpus ==
    /\ variants_row.shown => PickerJustified(variants_row.slot)
    /\ \A d \in dialogs : d.ref # Orphan => PickerJustified(d.ref)

\* the corpus key of an ingredient's base, wildcarded or not
BaseKey(code) ==
    IF EndsWithStar(code) THEN VariantKey(code) ELSE VariantKey(code \o <<"*">>)

\* C18: in every reachable state each grid ingredient's allowed_variants is a
\* subset of the current variant_index entry for its base key (re-discovery
\* included).
C18_VariantsWithinCorpus ==
    \A s \in DOMAIN grid_items :
        grid_items[s].allowed_variants \subseteq
            (IF BaseKey(grid_items[s].code) \in DOMAIN variant_index
             THEN variant_index[BaseKey(grid_items[s].code)] ELSE {})

\* C19: whatever happened between opening the variant dialog and its OK, the
\* ingredient the OK handler edits is the one in the selected slot, and its
\* code then ends in "-*" if the confirmed selection is non-empty and in a
\* bare "*" if it is empty.
C19_DialogOkOnSelected ==
    [][\A d \in dialogs : \A chosen \in SUBSET d.options :
          DialogOk(d, chosen)
              => /\ d.ref = selected
                 /\ selected \in DOMAIN grid_items'
                 /\ IF chosen # {}
                    THEN EndsWithDashStar(grid_items'[selected].code)
                    ELSE /\ EndsWithStar(grid_items'[selected].code)
                         /\ ~EndsWithDashStar(grid_items'[selected].code)]_vars

(***************************************************************************)
(* Properties of the wildcard normalizer.                                  *)
(***************************************************************************)
NoDoubles(code) == ~HasDouble(code, "-") /\ ~HasDouble(code, "*")

\* the ingredient was created Bare: an item name whose code does not end in
\* "*" and has neither "--" nor "**" in it
StartedBare ==
    /\ Len(n_start) > 0
    /\ Head(n_start) = "a"
    /\ ~EndsWithStar(n_start)
    /\ NoDoubles(n_start)

\* C4: from a bare code (no trailing "*"; "--" and "**" not yet in it), no
\* sequence of toggles and variant selections produces a code that contains
\* "--" or "**".
C4_NoDoubleDashOrStar ==
    (n_last # "init" /\ StartedBare) => NoDoubles(n_ing.code)

\* C5: _normalize_wildcard_code is idempotent: applied to what it returned, it
\* returns the same ingredient.
C5_NormalizeIdempotent ==
    n_last = "normalize" => NormalizeWildcardCode(n_ing) = n_ing

\* C5 witness: a normalization that did change the code.
C5_Witness ==
    /\ n_last = "normalize"
    /\ n_ing.code # n_prev.code
    /\ HasDouble(n_prev.code, "-")

\* C6: after _normalize_wildcard_code on a code ending in "*", the code ends
\* in a bare "*" not preceded by a dash if allowed_variants is empty, and in
\* "-*" if it is not.
C6_NormalizedSuffix ==
    (n_last = "normalize" /\ EndsWithStar(n_prev.code))
        => IF n_ing.allowed_variants = {}
           THEN EndsWithStar(n_ing.code) /\ ~EndsWithDashStar(n_ing.code)
           ELSE EndsWithDashStar(n_ing.code)

\* C6 witness: both directions have been normalized: "-*" made a bare "*" ...
C6_Witness ==
    /\ n_last = "normalize"
    /\ EndsWithDashStar(n_prev.code)
    /\ n_ing.allowed_variants = {}
    /\ n_ing.code = <<"a", "*">>

\* C7: _side_apply with the toggle off on a Wildcard-Open or Wildcard-Scoped
\* ingredient (here: one that was created Bare and got its "*" from the
\* handlers) leaves it Bare: no trailing "*", allowed_variants empty.
C7_ToggleOffGivesBare ==
    (/\ n_last = "off"
     /\ EndsWithStar(n_prev.code)
     /\ StartedBare)
        => (~EndsWithStar(n_ing.code) /\ n_ing.allowed_variants = {})

(***************************************************************************)
(* Properties of the asset root resolution.                                *)
(***************************************************************************)
\* the candidates of an expanded root R as the documentation lists them
DocumentedCandidates(R) ==
    << R \o <<"assets", "survival">>,
       R \o <<"Vintagestory", "assets", "survival">>,
       Parent(R) \o <<"Vintagestory", "assets", "survival">>,
       R >>

\* the directory exists and has an itemtypes subdirectory
IsSurvivalDir(p) == p \in r_fs /\ (p \o <<"itemtypes">>) \in r_fs

\* the documented candidates of R that validate
Hits(R) == { i \in 1..4 : IsSurvivalDir(DocumentedCandidates(R)[i]) }

FirstHit(R) == CHOOSE i \in Hits(R) : \A j \in Hits(R) : i <= j

\* log line h opens the search of root R: the lines after it are the
\* documented candidates in order with their outcomes, up to and including
\* the first that validates, which is then the result and ends the log
SearchLogged(h, R) ==
    LET exp == DocumentedCandidates(R)
        n   == IF Hits(R) = {} THEN 4 ELSE FirstHit(R)
    IN  /\ Len(r_logs) > h + n
        /\ \A i \in 1..n : r_logs[h + i] = TryLine(exp[i], i \in Hits(R))
        /\ IF Hits(R) # {}
           THEN /\ Len(r_logs) = h + n + 1
                /\ r_logs[h + n + 1] = FoundLine(exp[n])
                /\ r_survival = [found |-> TRUE, path |-> exp[n]]
           ELSE r_logs[h + n + 1].k # "try"

\* C9: for a root R, resolve_survival_dir tries R/assets/survival,
\* R/Vintagestory/assets/survival, parent(R)/Vintagestory/assets/survival, R
\* in that order, returns the first that validates whatever the later ones
\* are, tries none after it, and logs each attempt with its outcome in order.
C9_CandidateOrder ==
    r_called =>
        /\ Truthy(r_direct_root) => \E h \in 1..Len(r_logs) : r_logs[h].k = "direct"
        /\ \A h \in 1..Len(r_logs) :
              /\ r_logs[h].k = "direct"
                    => SearchLogged(h, Expand(r_direct_root))
              /\ r_logs[h].k = "env"
                    => SearchLogged(h, Expand(EnvGet(r_environ, r_env_key)))
              /\ r_logs[h].k = "try"
                    => \E g \in 1..(h - 1) :
                          /\ h - g <= 4
                          /\ r_logs[g].k \in {"direct", "env"}
                          /\ \A m \in (g + 1)..h : r_logs[m].k = "try"

\* C9 witness: the third candidate of /g/vs was returned after two failed
\* attempts, while the fourth candidate, never tried, would validate as well.
C9_Witness ==
    /\ r_called
    /\ r_direct_root = AbsRoot(GameRoot)
    /\ r_survival = [found |-> TRUE, path |-> Parent(GameRoot) \o VsSurvival]
    /\ IsSurvivalDir(GameRoot)
    /\ Len(r_logs) = 6

\* some candidate derived from direct_root validates
DirectHit == Truthy(r_direct_root) /\ Hits(Expand(r_direct_root)) # {}

\* some candidate derived from the value of the environment variable validates
EnvHit ==
    /\ r_env_key # ""
    /\ Truthy(EnvGet(r_environ, r_env_key))
    /\ Hits(Expand(EnvGet(r_environ, r_env_key))) # {}

\* the log shows that the environment variable was read
EnvConsulted == \E h \in 1..Len(r_logs) : r_logs[h].k \in {"env", "envunset"}

\* C10 as stated: the environment variable is consulted only when no
\* direct_root is given; whenever direct_root is given, only the four
\* candidates derived from it are tested, and the result is None if none of
\* them validates, even with the environment variable set to a valid root.
C10_EnvOnlyWithoutDirect ==
    (r_called /\ Truthy(r_direct_root)) =>
        /\ \A h \in 1..Len(r_logs) :
              r_logs[h].k = "try"
                  => \E i \in 1..4 :
                        r_logs[h].path = DocumentedCandidates(Expand(r_direct_root))[i]
        /\ ~DirectHit => ~r_survival.found

\* C10 amended: the candidates of direct_root are tested first; the
\* environment variable is consulted exactly when its name is given and no
\* candidate of direct_root validated (direct_root missing included), and
\* then its first valid candidate is the result; the result is None only
\* when neither source has a valid candidate.
C10_EnvIsFallback ==
    r_called =>
        /\ EnvConsulted <=> (r_env_key # "" /\ ~DirectHit)
        /\ DirectHit =>
              r_survival = [found |-> TRUE,
                            path |-> DocumentedCandidates(Expand(r_direct_root))
                                        [FirstHit(Expand(r_direct_root))]]
        /\ (~DirectHit /\ EnvHit) =>
              r_survival = [found |-> TRUE,
                            path |-> DocumentedCandidates(
                                         Expand(EnvGet(r_environ, r_env_key)))
                                        [FirstHit(Expand(EnvGet(r_environ, r_env_key)))]]
        /\ (~DirectHit /\ ~EnvHit) => ~r_survival.found

\* C10 witness: direct_root was given, none of its candidates validated, and
\* the call returned a directory found through the environment variable.
C10_Witness ==
    /\ r_called
    /\ Truthy(r_direct_root)
    /\ ~DirectHit
    /\ EnvConsulted
    /\ r_survival.found

(***************************************************************************)
(* Properties of the text scanning.                                        *)
(***************************************************************************)
\* the two patterns an item name foo is expected under
BothCodes(foo) == { GamePrefix \o foo, GamePrefix \o foo \o <<"-", "*">> }

\* index i lies inside a code entry that rule 1 matched from further left
InsideEarlierEntry(text, i) ==
    \E k \in 1..Len(Rule1Matches(text, 1)) :
        Rule1Matches(text, 1)[k].start < i /\ i < Rule1Matches(text, 1)[k].end

\* C13 as stated: for every text that contains code: "foo", whatever stands
\* before and after it, the result holds game:foo and game:foo-*.
C13_CodeEntryAnywhere ==
    "discover" \in s_done =>
        \A foo \in Idents : \A i \in 1..Len(s_text) :
            MatchLit(s_text, i, CodeEntry(foo)) => BothCodes(foo) \subseteq s_codes

\* C13 amended: the result holds game:foo and game:foo-* for every text that
\* contains code: "foo" at a word boundary (at the start of the text or after
\* a character that is no letter, digit or underscore) and outside the
\* quoted value of a code entry that starts further left.
C13_CodeEntryAtBoundary ==
    "discover" \in s_done =>
        \A foo \in Idents : \A i \in 1..Len(s_text) :
            (/\ MatchLit(s_text, i, CodeEntry(foo))
             /\ (i = 1 \/ ~IsWord(s_text[i - 1]))
             /\ ~InsideEarlierEntry(s_text, i))
                => BothCodes(foo) \subseteq s_codes

\* C13 witness: an entry found behind a brace and in front of a comma.
C13_Witness ==
    /\ "discover" \in s_done
    /\ s_text = <<"{">> \o CodeEntry(<<"b", "1">>) \o <<",">>
    /\ BothCodes(<<"b", "1">>) \subseteq s_codes

\* the text without its white space
RECURSIVE RemoveSpaces(_)
RemoveSpaces(s) ==
    IF Len(s) = 0 THEN s
    ELSE IF IsSpace(Head(s)) THEN RemoveSpaces(Tail(s))
    ELSE <<Head(s)>> \o RemoveSpaces(Tail(s))

\* the text consists of code: { path: "foo-*" }, however it is laid out
IsPathEntry(text, foo) ==
    \E qt \in {"\"", "'"} :
        RemoveSpaces(text) =
            <<"c", "o", "d", "e", ":", "{">> \o <<"p", "a", "t", "h", ":">> \o <<qt>> \o foo \o <<"-", "*">> \o <<qt, "}">>

\* C14: for a text consisting of code: { path: "foo-*" }, on one line or
\* several, the result is exactly {game:foo-*}.
C14_PathEntryAlone ==
    "discover" \in s_done =>
        \A foo \in Idents :
            IsPathEntry(s_text, foo)
                => s_codes = { GamePrefix \o foo \o <<"-", "*">> }

\* C14 witness: such a text spanning several lines has been scanned.
C14_Witness ==
    /\ "discover" \in s_done
    /\ IsPathEntry(s_text, <<"a">>)
    /\ HasChar(s_text, "\n")
    /\ s_codes = { GamePrefix \o <<"a", "-", "*">> }

\* C15: _norm_pattern is idempotent: applied to what it returned, it returns
\* the same string.
C15_NormPatternIdempotent ==
    "norm" \in s_done => NormPattern(s_norm) = s_norm

\* C15 witness: a string with a brace group next to a star was normalized.
C15_Witness ==
    /\ "norm" \in s_done
    /\ s_text = <<"{", "a", "}", "*">>
    /\ s_norm = <<"*">>

\* C16: no pattern returned by _discover_codes_in_text holds "**" or "--".
C16_NoDoubleInPatterns ==
    "discover" \in s_done => \A c \in s_codes : NoDoubles(c)

\* the domain-qualified triples d:b-t the text holds
QualifiedTriples(text) ==
    { DomAt(text, i) : i \in { k \in 1..Len(text) : DomAt(text, k).ok } }

\* the bare triples b-t the text holds, none of them behind a domain separator
BareTriples(text) ==
    { NoDomAt(text, i) :
        i \in { k \in 1..Len(text) :
                  NoDomAt(text, k).ok /\ ~(k > 1 /\ text[k - 1] = ":") } }

\* C17: the corpus holds under d:b- exactly the tokens of the qualified
\* triples d:b-t of the file, and under game:b- also those of its bare
\* triples b-t; a triple of another domain adds nothing under a game: key.
C17_CorpusByDomain ==
    "corpus" \in s_done =>
        UNION { { <<k, t>> : t \in s_corpus[k] } : k \in DOMAIN s_corpus }
            = { <<CorpusKey(m), m.token>> :
                  m \in QualifiedTriples(s_text) \cup BareTriples(s_text) }

(***************************************************************************)
(* Properties of the export.                                               *)
(***************************************************************************)
\* the document holds slot s as the grid g has it
Exported(doc, g, s) ==
    /\ doc.pattern[s] \in DOMAIN doc.ingredients
    /\ doc.ingredients[doc.pattern[s]].code = g[s].code

\* C20: in the document copy_json5 writes, the pattern letter of every filled
\* slot is a key of the ingredients mapping, and the entry under it has the
\* code of that slot.
C20_ExportComplete ==
    [][clipboard' # clipboard =>
          \A s \in Slots : Filled(grid_items', s) => Exported(clipboard', grid_items', s)]_vars

(***************************************************************************)
(* Properties of the discovery.                                            *)
(***************************************************************************)
\* no documented candidate of root raw is a survival directory
NoneValidates(raw) == Truthy(raw) => Hits(Expand(raw)) = {}

\* the direct root and the environment variable of the application are
\* unset, or none of their candidates validates
NoValidCandidate ==
    /\ NoneValidates(self_direct_root)
    /\ self_env_key # "" => NoneValidates(EnvGet(r_environ, self_env_key))

\* the output field holds nothing but blanks
BlankOutput == \A i \in 1..Len(output_code_var) : output_code_var[i] = " "

\* C11: when neither the direct root nor the environment variable is set, or
\* no candidate validates, the application holds no discovered code, no
\* survival path and an empty corpus, and build_json5_text on an empty grid
\* with a blank output field gives an empty ingredients mapping and the
\* output code game:__set_output__.
C11_NothingFound ==
    NoValidCandidate =>
        /\ discovered_items = {}
        /\ used_survival_path = NoPath
        /\ variant_index = EmptyFn
        /\ (grid_items = EmptyFn /\ BlankOutput) =>
              LET doc == BuildJson5Text(grid_items, code_to_symbol, output_code_var).doc
              IN  /\ doc.ingredients = EmptyFn
                  /\ doc.output = Placeholder

\* C11 witness: a direct search found nothing, and the empty grid was copied
\* with a blank in the output field.
C11_Witness ==
    /\ NoValidCandidate
    /\ self_direct_root # NoneRoot
    /\ discovered_items = {}
    /\ output_code_var = <<" ">>
    /\ clipboard.some
    /\ clipboard.ingredients = EmptyFn
    /\ clipboard.output = Placeholder

\* resolve_survival_dir, called with a non-absolute direct_root, logs the
\* warning and then searches the candidates of the expanded root
WarnedAndSearched ==
    (r_called /\ Truthy(r_direct_root) /\ ~IsAbs(r_direct_root)) =>
        /\ Len(r_logs) >= 3
        /\ r_logs[2] = NotAbsLine(r_direct_root)
        /\ r_logs[3].k = "direct"
        /\ SearchLogged(3, Expand(r_direct_root))

\* paths a user types into the Direct Search dialog
TypedRoots == DirectRoots \ {NoneRoot}

\* the step stores root as direct_root and runs the discovery with it
StoredAndDiscovered(root) ==
    /\ self_direct_root' = root
    /\ r_called'
    /\ r_direct_root' = root
    /\ error_box' = ""

\* C12 as stated: a non-absolute explicit root is never rejected:
\* resolve_survival_dir logs a warning and tries its candidates, and Direct
\* Search stores it as direct_root and runs the discovery.
C12_NonAbsoluteNeverRejected ==
    /\ []WarnedAndSearched
    /\ [][\A val \in TypedRoots :
             (DirectSearch(val) /\ Truthy(val) /\ ~IsAbs(val))
                 => \/ StoredAndDiscovered(val)
                    \/ StoredAndDiscovered(AbsRoot(Expand(val)))]_vars

\* C12 amended: resolve_survival_dir never rejects a non-absolute direct_root
\* (it logs a warning and tries the candidates of the expanded root).  Direct
\* Search expands "~" first: a path that is absolute then is stored
\* (expanded) as direct_root and discovered with; any other path is rejected
\* with the error box "Path must be absolute", direct_root and the last
\* discovery staying as they are.
C12_DirectSearchNeedsAbsolute ==
    /\ []WarnedAndSearched
    /\ [][\A val \in TypedRoots :
             DirectSearch(val) =>
                 IF val.kind \in {"abs", "home"}
                 THEN StoredAndDiscovered(AbsRoot(Expand(val)))
                 ELSE /\ error_box' = "Path must be absolute"
                      /\ UNCHANGED <<self_direct_root, discovered_items,
                                     used_survival_path, variant_index,
                                     res_vars>>]_vars

\* C12 witness: a "~" path was accepted, resolve_survival_dir was called with
\* a relative root and warned, and Direct Search has just rejected a path.
C12_Witness ==
    /\ error_box = "Path must be absolute"
    /\ self_direct_root = AbsRoot(Home)
    /\ r_called
    /\ r_direct_root.kind = "rel"
    /\ r_logs[2] = NotAbsLine(r_direct_root)

=============================================================================
